---- MODULE Spec2Model ----
(***************************************************************************)
(* The renewal decision engine of letsencrypt/main.py: one call of         *)
(* _auth_from_domains, from its entry to its return or to the exception    *)
(* that leaves it.  The program counter pc follows the call through        *)
(* _treat_as_renewal, _find_duplicative_certs, the two prompt handlers,    *)
(* the staging guard and the calls on the protocol client and the lineage. *)
(***************************************************************************)
EXTENDS Integers, Sequences, FiniteSets, TLC

VARIABLES
    config,               \* the parsed command line (read only in a run)
    domains,              \* the requested names, as the set set(domains)
    lineage_arg,          \* the lineage argument of _auth_from_domains
    lineage,              \* the local `lineage` of _auth_from_domains
    action,               \* the local `action` of _auth_from_domains
    renewal_files,        \* what _renewal_conf_files enumerated, in order
    identical_names_cert, \* result of _find_duplicative_certs
    subset_names_cert,    \* result of _find_duplicative_certs
    renew_due,            \* what should_renew answered
    response,             \* what display.menu answered
    answer,               \* what display.yesno answered
    original_server,      \* lineage.configuration["renewalparams"]["server"]
    issuer,               \* repr(latest_cert.get_issuer())
    calls,                \* the calls made on the collaborators, in order
    raised,               \* the exception that left the call, "" if none
    pc,
    versions,             \* the version numbers of the lineage on disk
    links,                \* the version the lineage's stable paths point to
    namespace,            \* config.namespace: account and the registration flags
    accounts,             \* what AccountFileStorage.find_all returns
    acc,                  \* the local `acc` of _determine_account, an account id
    returned,             \* the message a verb function returned, "" if none
    exc,                  \* the arguments of _handle_exception
    exited                \* the status and the message the process ended with

\* The lineage store, and the state of the verb functions before
\* _auth_from_domains.
store_vars == <<versions, links>>
verb_vars == <<namespace, accounts, acc, returned>>
exit_vars == <<exc, exited>>

vars == <<config, domains, lineage_arg, lineage, action, renewal_files,
          identical_names_cert, subset_names_cert, renew_due, response,
          answer, original_server, issuer, calls, raised, pc,
          versions, links, namespace, accounts, acc, returned, exc, exited>>

\* Bound of the model: how many renewal configuration files are on disk.
MaxLineages == 2

Names == {"a.com", "b.com", "c.com"}
DomainSets == (SUBSET Names) \ {{}}

\* The requests of the model: one, two and three names.
Requests == {{"a.com"}, {"a.com", "b.com"}, Names}

\* Python's None for a lineage; stored lineages are numbered from 1.
None == [file |-> 0, names |-> {}]

\* The acme servers a run may name.
PRODUCTION_URI == "https://acme-v01.api.letsencrypt.org/directory"
STAGING_URI == "https://acme-staging.api.letsencrypt.org/directory"
UPPER_STAGING_URI == "https://ACME-STAGING.api.letsencrypt.org/directory"
OTHER_STAGING_URI == "https://ca.example.net/staging/directory"
Servers == {PRODUCTION_URI, STAGING_URI, UPPER_STAGING_URI, OTHER_STAGING_URI}

\* repr() of the issuer of the lineage's latest certificate.
FAKE_ISSUER == "<X509Name object '/CN=happy hacker fake CA'>"
FAKE_UPPER_ISSUER == "<X509Name object '/CN=Fake LE Intermediate X1'>"
REAL_ISSUER == "<X509Name object '/C=US/O=Let's Encrypt/CN=Let's Encrypt Authority X1'>"
Issuers == {FAKE_ISSUER, FAKE_UPPER_ISSUER, REAL_ISSUER}

\* The verbs of the command line that come to _auth_from_domains.
TypedVerbs == {"run", "everything", "certonly", "auth", "renew"}

\* cli's parser, from the specification: everything is run and auth is
\* certonly.
determine_verb(typed) ==
    IF typed = "everything" THEN "run"
    ELSE IF typed = "auth" THEN "certonly"
    ELSE typed

\* config.verb as cli's parser leaves it.
Verbs == {determine_verb(typed) : typed \in TypedVerbs}

\* display_util.OK and display_util.CANCEL, with the index of the choice.
OK == "ok"
CANCEL == "cancel"
Responses == {OK, CANCEL} \X {0, 1}

CANCELLED == "Error: User chose to cancel the operation and may reinvoke the client."
BREAK_MY_CERTS == "Error: You've asked to renew/replace a seemingly valid certificate with a test certificate"
NOT_OBTAINED == "Error: Certificate could not be obtained"

----------------------------------------------------------------------------
(* Strings.                                                                *)

UpperCase == "ABCDEFGHIJKLMNOPQRSTUVWXYZ"
LowerCase == "abcdefghijklmnopqrstuvwxyz"

\* str.lower() of one character.
ToLower ==
    [c \in {SubSeq(UpperCase, i, i) : i \in 1..Len(UpperCase)} |->
        LET i == CHOOSE i \in 1..Len(UpperCase) : SubSeq(UpperCase, i, i) = c
        IN  SubSeq(LowerCase, i, i)]

lower_char(c) == IF c \in DOMAIN ToLower THEN ToLower[c] ELSE c

\* str.lower()
RECURSIVE lower(_)
lower(s) ==
    IF Len(s) = 0 THEN s
    ELSE lower_char(SubSeq(s, 1, 1)) \o lower(SubSeq(s, 2, Len(s)))

\* Python's `sub in s` on strings.
contains(sub, s) ==
    \E i \in 1..(Len(s) - Len(sub) + 1) : SubSeq(s, i, i + Len(sub) - 1) = sub

----------------------------------------------------------------------------
(* The staging guard.                                                      *)

\* Mutant of _is_staging: only the known constant is staging.
_is_staging_constant_only(srv) == srv = STAGING_URI

_is_staging(srv) == srv = STAGING_URI \/ contains("staging", srv)

\* now_valid: the latest certificate is not one of the fake CA's.
now_valid(latest_issuer) == ~contains("fake", lower(latest_issuer))

\* Mutant of _avoid_invalidating_lineage: the latest certificate is not looked at.
_avoid_invalidating_lineage_no_cert(cfg, latest_issuer, orig_server) ==
    IF _is_staging(cfg.server) /\ ~_is_staging(orig_server) /\ ~cfg.break_my_certs
    THEN BREAK_MY_CERTS ELSE ""

\* Mutant of _avoid_invalidating_lineage: --break-my-certs is not honoured.
_avoid_invalidating_lineage_no_flag(cfg, latest_issuer, orig_server) ==
    IF _is_staging(cfg.server) /\ (~_is_staging(orig_server) \/ now_valid(latest_issuer))
    THEN BREAK_MY_CERTS ELSE ""

\* The exception _avoid_invalidating_lineage raises, "" when it returns.
_avoid_invalidating_lineage(cfg, latest_issuer, orig_server) ==
    IF _is_staging(cfg.server)
    THEN IF ~_is_staging(orig_server) \/ now_valid(latest_issuer)
         THEN IF ~cfg.break_my_certs THEN BREAK_MY_CERTS ELSE ""
         ELSE ""
    ELSE ""

----------------------------------------------------------------------------
(* The duplicate matcher.                                                  *)

\* A renewal configuration file: storage.RenewableCert loads it (ok) and
\* gives its names, or raises CertStorageError / IOError.
RenewalFiles ==
    [ok : {TRUE}, names : DomainSets] \cup {[ok |-> FALSE, names |-> {}]}

RECURSIVE SeqsUpTo(_, _)
SeqsUpTo(S, n) ==
    IF n = 0 THEN {<<>>}
    ELSE LET shorter == SeqsUpTo(S, n - 1)
         IN  shorter \cup {Append(q, x) : q \in shorter, x \in S}

\* The directory listings _renewal_conf_files may return.
Listings == SeqsUpTo(RenewalFiles, MaxLineages)

\* Mutant of find_step: issubset is tested before equality.
find_step_subset_first(found, i, file, doms) ==
    IF ~file.ok THEN found
    ELSE LET candidate_lineage == [file |-> i, names |-> file.names]
             candidate_names == candidate_lineage.names
         IN  IF candidate_names \subseteq doms
             THEN IF found[2] = None
                  THEN <<found[1], candidate_lineage>>
                  ELSE IF Cardinality(candidate_names) > Cardinality(found[2].names)
                  THEN <<found[1], candidate_lineage>>
                  ELSE found
             ELSE IF candidate_names = doms
             THEN <<candidate_lineage, found[2]>>
             ELSE found

\* Mutant of find_step: the smaller candidate replaces the larger.
find_step_smaller(found, i, file, doms) ==
    IF ~file.ok THEN found
    ELSE LET candidate_lineage == [file |-> i, names |-> file.names]
             candidate_names == candidate_lineage.names
         IN  IF candidate_names = doms
             THEN <<candidate_lineage, found[2]>>
             ELSE IF candidate_names \subseteq doms
             THEN IF found[2] = None
                  THEN <<found[1], candidate_lineage>>
                  ELSE IF Cardinality(candidate_names) < Cardinality(found[2].names)
                  THEN <<found[1], candidate_lineage>>
                  ELSE found
             ELSE found

\* Mutant of find_step: the requested names are tested for being a subset
\* of the candidate's.
find_step_superset(found, i, file, doms) ==
    IF ~file.ok THEN found
    ELSE LET candidate_lineage == [file |-> i, names |-> file.names]
             candidate_names == candidate_lineage.names
         IN  IF candidate_names = doms
             THEN <<candidate_lineage, found[2]>>
             ELSE IF doms \subseteq candidate_names
             THEN IF found[2] = None
                  THEN <<found[1], candidate_lineage>>
                  ELSE IF Cardinality(candidate_names) > Cardinality(found[2].names)
                  THEN <<found[1], candidate_lineage>>
                  ELSE found
             ELSE found

\* Mutant of find_step: a file that does not load is a candidate with the
\* names it is listed with.
find_step_broken_loaded(found, i, file, doms) ==
    LET candidate_lineage == [file |-> i, names |-> file.names]
        candidate_names == candidate_lineage.names
    IN  IF candidate_names = doms
        THEN <<candidate_lineage, found[2]>>
        ELSE IF candidate_names \subseteq doms
        THEN IF found[2] = None
             THEN <<found[1], candidate_lineage>>
             ELSE IF Cardinality(candidate_names) > Cardinality(found[2].names)
             THEN <<found[1], candidate_lineage>>
             ELSE found
        ELSE found

\* Mutant of find_step: a candidate of the same size replaces the one found.
find_step_later_tie(found, i, file, doms) ==
    IF ~file.ok THEN found
    ELSE LET candidate_lineage == [file |-> i, names |-> file.names]
             candidate_names == candidate_lineage.names
         IN  IF candidate_names = doms
             THEN <<candidate_lineage, found[2]>>
             ELSE IF candidate_names \subseteq doms
             THEN IF found[2] = None
                  THEN <<found[1], candidate_lineage>>
                  ELSE IF Cardinality(candidate_names) >= Cardinality(found[2].names)
                  THEN <<found[1], candidate_lineage>>
                  ELSE found
             ELSE found

\* One pass of the body of the for loop over the renewal files: found is
\* <<identical_names_cert, subset_names_cert>> before the pass.
find_step(found, i, file, doms) ==
    IF ~file.ok THEN found                              \* continue
    ELSE LET candidate_lineage == [file |-> i, names |-> file.names]
             candidate_names == candidate_lineage.names
         IN  IF candidate_names = doms
             THEN <<candidate_lineage, found[2]>>
             ELSE IF candidate_names \subseteq doms
             THEN IF found[2] = None
                  THEN <<found[1], candidate_lineage>>
                  ELSE IF Cardinality(candidate_names) > Cardinality(found[2].names)
                  THEN <<found[1], candidate_lineage>>
                  ELSE found
             ELSE found

RECURSIVE find_loop(_, _, _, _)
find_loop(found, i, files, doms) ==
    IF i > Len(files) THEN found
    ELSE find_loop(find_step(found, i, files[i], doms), i + 1, files, doms)

_find_duplicative_certs(files, doms) == find_loop(<<None, None>>, 1, files, doms)

----------------------------------------------------------------------------
(* The action resolver.                                                    *)

\* cli.should_renew: renewal is due by --renew-by-default or because the
\* certificate is within the renewal window of its expiry.
should_renew(cfg, near_expiry) == cfg.renew_by_default \/ near_expiry

\* A call on a collaborator: the names, the version or the full chain's path
\* passed, the version returned, the path the reporter's message names.
Call(op) ==
    [op |-> op, names |-> {}, ver |-> 0, ret |-> 0, path |-> "", message |-> ""]
CallWith(op, names) == [Call(op) EXCEPT !.names = names]
CallVersion(op, ver, ret) == [Call(op) EXCEPT !.ver = ver, !.ret = ret]
CallPath(op, path, message) ==
    [Call(op) EXCEPT !.path = path, !.message = message]

\* The namespace of a run that has not come to the account yet.
NoNamespace ==
    [account |-> "", email |-> "", register_unsafely_without_email |-> FALSE]

\* No exception has come to _handle_exception, and the process runs.
NoException ==
    [type |-> "", value |-> "", config |-> FALSE, debug |-> FALSE,
     verbose_count |-> 0, writable |-> FALSE]
NotExited == [status |-> 0, message |-> "", raised |-> ""]

Configs ==
    [duplicate : BOOLEAN, expand : BOOLEAN, reinstall : BOOLEAN,
     renew_by_default : BOOLEAN, dry_run : BOOLEAN, break_my_certs : BOOLEAN,
     server : Servers, verb : Verbs]

\* run and obtain_cert call without a lineage; cli.renew calls obtain_cert
\* with the lineage it renews.
LineageArgs(verb) ==
    IF verb = "renew"
    THEN [file : {1}, names : {{"a.com"}, {"a.com", "b.com"}}]
    ELSE {None}

Init ==
    /\ config \in Configs
    /\ domains \in Requests
    /\ lineage_arg \in LineageArgs(config.verb)
    /\ lineage = lineage_arg
    /\ action = ""
    /\ renewal_files = <<>>
    /\ identical_names_cert = None
    /\ subset_names_cert = None
    /\ renew_due = FALSE
    /\ response = <<OK, 0>>
    /\ answer = FALSE
    /\ original_server = ""
    /\ issuer = ""
    /\ calls = <<>>
    /\ raised = ""
    /\ pc = "_auth_from_domains"
    /\ versions = {1}
    /\ links = 1
    /\ namespace = NoNamespace
    /\ accounts = <<>>
    /\ acc = ""
    /\ returned = ""
    /\ exc = NoException
    /\ exited = NotExited

\* Mutant of AuthFromDomains: the lineage argument is not looked at.
AuthFromDomains_always_match ==
    /\ pc = "_auth_from_domains"
    /\ pc' = "_treat_as_renewal"
    /\ UNCHANGED <<config, domains, lineage_arg, lineage, action, renewal_files,
                   identical_names_cert, subset_names_cert, renew_due,
                   response, answer, original_server, issuer, calls, raised>>
    /\ UNCHANGED <<store_vars, verb_vars>>
    /\ UNCHANGED exit_vars

\* main.py 93-99
AuthFromDomains ==
    /\ pc = "_auth_from_domains"
    /\ IF lineage = None
       THEN /\ pc' = "_treat_as_renewal"
            /\ UNCHANGED action
       ELSE /\ action' = "renew"
            /\ pc' = "execute"
    /\ UNCHANGED <<config, domains, lineage_arg, lineage, renewal_files,
                   identical_names_cert, subset_names_cert, renew_due,
                   response, answer, original_server, issuer, calls, raised>>
    /\ UNCHANGED <<store_vars, verb_vars>>
    /\ UNCHANGED exit_vars

\* main.py 239-251, with the call of _find_duplicative_certs
TreatAsRenewal ==
    /\ pc = "_treat_as_renewal"
    /\ IF config.duplicate
       THEN /\ action' = "newcert"
            /\ lineage' = None
            /\ pc' = "execute"
            /\ UNCHANGED <<renewal_files, identical_names_cert, subset_names_cert>>
       ELSE \E files \in Listings :
              LET found == _find_duplicative_certs(files, domains) IN
              /\ renewal_files' = files
              /\ identical_names_cert' = found[1]
              /\ subset_names_cert' = found[2]
              /\ IF found[1] = None /\ found[2] = None
                 THEN /\ action' = "newcert"
                      /\ lineage' = None
                      /\ pc' = "execute"
                 ELSE /\ pc' = IF found[1] # None
                               THEN "_handle_identical_cert_request"
                               ELSE "_handle_subset_cert_request"
                      /\ UNCHANGED <<action, lineage>>
    /\ UNCHANGED <<config, domains, lineage_arg, renew_due, response, answer,
                   original_server, issuer, calls, raised>>
    /\ UNCHANGED <<store_vars, verb_vars>>
    /\ UNCHANGED exit_vars

\* What a handler of a match hands back: the action it returns or the
\* exception it raises, and the calls it made on the display and the reporter.
Returns(act, made) == [action |-> act, raised |-> "", calls |-> made]
Raises(error, made) == [action |-> "", raised |-> error, calls |-> made]

\* Mutant of _handle_identical_cert_request: --reinstall is honoured before
\* the renewal policy.
_handle_identical_cert_request_reinstall_first(cfg, due, menu) ==
    IF cfg.reinstall THEN Returns("reinstall", <<>>)
    ELSE IF due THEN Returns("renew", <<>>)
    ELSE IF cfg.verb \notin {"run", "certonly"}
    THEN Raises("UnboundLocalError: keep_opt", <<>>)
    ELSE IF menu[1] = CANCEL THEN Raises(CANCELLED, <<Call("menu")>>)
    ELSE IF menu[2] = 0 THEN Returns("reinstall", <<Call("menu")>>)
    ELSE IF menu[2] = 1 THEN Returns("renew", <<Call("menu")>>)
    ELSE Raises("AssertionError: This is impossible", <<Call("menu")>>)

\* Mutant of _handle_identical_cert_request: keep_opt is bound for run only.
_handle_identical_cert_request_run_only(cfg, due, menu) ==
    IF due THEN Returns("renew", <<>>)
    ELSE IF cfg.reinstall THEN Returns("reinstall", <<>>)
    ELSE IF cfg.verb \notin {"run"}
    THEN Raises("UnboundLocalError: keep_opt", <<>>)
    ELSE IF menu[1] = CANCEL THEN Raises(CANCELLED, <<Call("menu")>>)
    ELSE IF menu[2] = 0 THEN Returns("reinstall", <<Call("menu")>>)
    ELSE IF menu[2] = 1 THEN Returns("renew", <<Call("menu")>>)
    ELSE Raises("AssertionError: This is impossible", <<Call("menu")>>)

\* main.py 178-219.  due is what should_renew answered; menu is what
\* display.menu answers if it is called.
_handle_identical_cert_request(cfg, due, menu) ==
    IF due THEN Returns("renew", <<>>)
    ELSE IF cfg.reinstall THEN Returns("reinstall", <<>>)
    ELSE IF cfg.verb \notin {"run", "certonly"}
    THEN Raises("UnboundLocalError: keep_opt", <<>>)
    ELSE IF menu[1] = CANCEL THEN Raises(CANCELLED, <<Call("menu")>>)
    ELSE IF menu[2] = 0 THEN Returns("reinstall", <<Call("menu")>>)
    ELSE IF menu[2] = 1 THEN Returns("renew", <<Call("menu")>>)
    ELSE Raises("AssertionError: This is impossible", <<Call("menu")>>)

\* Mutant of _handle_subset_cert_request: --renew-by-default does not
\* spare the prompt.
_handle_subset_cert_request_expand_only(cfg, yesno) ==
    IF cfg.expand THEN Returns("renew", <<>>)
    ELSE IF yesno THEN Returns("renew", <<Call("yesno")>>)
    ELSE Raises(CANCELLED, <<Call("yesno"), Call("add_message")>>)

\* Mutant of _handle_subset_cert_request: "no" raises with no message added.
_handle_subset_cert_request_no_message(cfg, yesno) ==
    IF cfg.expand \/ cfg.renew_by_default THEN Returns("renew", <<>>)
    ELSE IF yesno THEN Returns("renew", <<Call("yesno")>>)
    ELSE Raises(CANCELLED, <<Call("yesno")>>)

\* main.py 137-175.  yesno is what display.yesno answers if it is called.
_handle_subset_cert_request(cfg, yesno) ==
    IF cfg.expand \/ cfg.renew_by_default THEN Returns("renew", <<>>)
    ELSE IF yesno THEN Returns("renew", <<Call("yesno")>>)
    ELSE Raises(CANCELLED, <<Call("yesno"), Call("add_message")>>)

\* main.py 249 with 187-219; the return is that of _treat_as_renewal into
\* _auth_from_domains (line 95).
HandleIdenticalCertRequest ==
    /\ pc = "_handle_identical_cert_request"
    /\ \E near_expiry \in BOOLEAN, menu \in Responses :
         LET cert == identical_names_cert
             due == should_renew(config, near_expiry)
             out == _handle_identical_cert_request(config, due, menu)
         IN  /\ renew_due' = due
             /\ response' = IF out.calls # <<>> THEN menu ELSE response
             /\ calls' = calls \o out.calls
             /\ raised' = out.raised
             /\ IF out.raised = ""
                THEN /\ action' = out.action
                     /\ lineage' = cert
                     /\ pc' = "execute"
                ELSE /\ pc' = "raised"
                     /\ UNCHANGED <<action, lineage>>
    /\ renewal_files' = <<>>
    /\ identical_names_cert' = None
    /\ subset_names_cert' = None
    /\ UNCHANGED <<config, domains, lineage_arg, answer, original_server, issuer>>
    /\ UNCHANGED <<store_vars, verb_vars>>
    /\ UNCHANGED exit_vars

\* main.py 251 with 157-175
HandleSubsetCertRequest ==
    /\ pc = "_handle_subset_cert_request"
    /\ \E yesno \in BOOLEAN :
         LET cert == subset_names_cert
             out == _handle_subset_cert_request(config, yesno)
         IN  /\ answer' = IF out.calls # <<>> THEN yesno ELSE answer
             /\ calls' = calls \o out.calls
             /\ raised' = out.raised
             /\ IF out.raised = ""
                THEN /\ action' = out.action
                     /\ lineage' = cert
                     /\ pc' = "execute"
                ELSE /\ pc' = "raised"
                     /\ UNCHANGED <<action, lineage>>
    /\ renewal_files' = <<>>
    /\ identical_names_cert' = None
    /\ subset_names_cert' = None
    /\ UNCHANGED <<config, domains, lineage_arg, renew_due, response,
                   original_server, issuer>>
    /\ UNCHANGED <<store_vars, verb_vars>>
    /\ UNCHANGED exit_vars

----------------------------------------------------------------------------
(* The renewal executor.                                                   *)

\* The number a new lineage's file gets in the model.
NewFile == MaxLineages + 1

\* The store of a lineage (letsencrypt/storage.py), from the specification:
\* a lineage has the versions 1..n, latest_common_version is the highest of
\* them, save_successor writes the files of the next version and returns its
\* number without moving the links, update_all_links_to moves the links.
latest_common_version(vs) == CHOOSE v \in vs : \A w \in vs : w <= v
save_successor(vs) == latest_common_version(vs) + 1

\* The paths of a lineage; a lineage without a full chain has "" for it.
CERT_PATH == "cert.pem"
FULLCHAIN_PATH == "fullchain.pem"

\* Mutant of _report_new_cert: the certificate's path is always reported.
_report_new_cert_cert_path(cert_path, fullchain_path) == cert_path

\* main.py 313-321: the path the message names.
_report_new_cert(cert_path, fullchain_path) ==
    IF fullchain_path # "" THEN fullchain_path ELSE cert_path

\* Mutant of Reinstall: the reinstalled certificate is reported as new.
Reinstall_reported ==
    /\ pc = "execute" /\ action = "reinstall"
    /\ pc' = "report"
    /\ renewal_files' = <<>>
    /\ UNCHANGED <<config, domains, lineage_arg, lineage, action,
                   identical_names_cert, subset_names_cert, renew_due,
                   response, answer, original_server, issuer, calls, raised>>
    /\ UNCHANGED <<store_vars, verb_vars>>
    /\ UNCHANGED exit_vars

\* Mutant of Reinstall: the certificate is obtained again.
Reinstall_obtains ==
    /\ pc = "execute" /\ action = "reinstall"
    /\ pc' = "obtain_certificate"
    /\ renewal_files' = <<>>
    /\ UNCHANGED <<config, domains, lineage_arg, lineage, action,
                   identical_names_cert, subset_names_cert, renew_due,
                   response, answer, original_server, issuer, calls, raised>>
    /\ UNCHANGED <<store_vars, verb_vars>>
    /\ UNCHANGED exit_vars

\* main.py 101-104
Reinstall ==
    /\ pc = "execute" /\ action = "reinstall"
    /\ pc' = "done"
    /\ renewal_files' = <<>>
    /\ UNCHANGED <<config, domains, lineage_arg, lineage, action,
                   identical_names_cert, subset_names_cert, renew_due,
                   response, answer, original_server, issuer, calls, raised>>
    /\ UNCHANGED <<store_vars, verb_vars>>
    /\ UNCHANGED exit_vars

\* Mutant of AvoidInvalidatingLineage: the guard's error is not raised.
AvoidInvalidatingLineage_ignored ==
    /\ pc = "execute" /\ action = "renew"
    /\ \E orig \in Servers, iss \in Issuers :
         /\ original_server' = orig
         /\ issuer' = iss
         /\ calls' = Append(calls, Call("_avoid_invalidating_lineage"))
         /\ raised' = _avoid_invalidating_lineage(config, iss, orig)
         /\ pc' = "obtain_certificate"
    /\ renewal_files' = <<>>
    /\ UNCHANGED <<config, domains, lineage_arg, lineage, action,
                   identical_names_cert, subset_names_cert, renew_due,
                   response, answer>>
    /\ UNCHANGED <<store_vars, verb_vars>>
    /\ UNCHANGED exit_vars

\* main.py 105-107: the recorded server is read and the guard is run on it
\* and on the issuer of the certificate lineage.cert points to.
AvoidInvalidatingLineage ==
    /\ pc = "execute" /\ action = "renew"
    /\ \E orig \in Servers, iss \in Issuers :
         LET error == _avoid_invalidating_lineage(config, iss, orig) IN
         /\ original_server' = orig
         /\ issuer' = iss
         /\ calls' = Append(calls, Call("_avoid_invalidating_lineage"))
         /\ raised' = error
         /\ pc' = IF error = "" THEN "obtain_certificate" ELSE "raised"
    /\ renewal_files' = <<>>
    /\ UNCHANGED <<config, domains, lineage_arg, lineage, action,
                   identical_names_cert, subset_names_cert, renew_due,
                   response, answer>>
    /\ UNCHANGED <<store_vars, verb_vars>>
    /\ UNCHANGED exit_vars

\* Mutant of ObtainCertificate: a dry run saves the certificate too.
ObtainCertificate_saves_dry_run ==
    /\ pc = "obtain_certificate"
    /\ calls' = Append(calls, CallWith("obtain_certificate", domains))
    /\ \E obtained \in BOOLEAN :
         IF obtained
         THEN /\ pc' = "save_successor"
              /\ UNCHANGED raised
         ELSE /\ raised' = "Error: obtain_certificate"
              /\ pc' = "raised"
    /\ UNCHANGED <<config, domains, lineage_arg, lineage, action, renewal_files,
                   identical_names_cert, subset_names_cert, renew_due,
                   response, answer, original_server, issuer>>
    /\ UNCHANGED <<store_vars, verb_vars>>
    /\ UNCHANGED exit_vars

\* Mutant of ObtainCertificate: the links are moved without a successor
\* saved.
ObtainCertificate_links_first ==
    /\ pc = "obtain_certificate"
    /\ calls' = Append(calls, CallWith("obtain_certificate", domains))
    /\ \E obtained \in BOOLEAN :
         IF obtained
         THEN /\ pc' = IF config.dry_run THEN "report" ELSE "update_all_links_to"
              /\ UNCHANGED raised
         ELSE /\ raised' = "Error: obtain_certificate"
              /\ pc' = "raised"
    /\ UNCHANGED <<config, domains, lineage_arg, lineage, action, renewal_files,
                   identical_names_cert, subset_names_cert, renew_due,
                   response, answer, original_server, issuer>>
    /\ UNCHANGED <<store_vars, verb_vars>>
    /\ UNCHANGED exit_vars

\* main.py 110-115: the protocol client returns the new certificate or raises.
ObtainCertificate ==
    /\ pc = "obtain_certificate"
    /\ calls' = Append(calls, CallWith("obtain_certificate", domains))
    /\ \E obtained \in BOOLEAN :
         IF obtained
         THEN /\ pc' = IF config.dry_run THEN "report" ELSE "save_successor"
              /\ UNCHANGED raised
         ELSE /\ raised' = "Error: obtain_certificate"
              /\ pc' = "raised"
    /\ UNCHANGED <<config, domains, lineage_arg, lineage, action, renewal_files,
                   identical_names_cert, subset_names_cert, renew_due,
                   response, answer, original_server, issuer>>
    /\ UNCHANGED <<store_vars, verb_vars>>
    /\ UNCHANGED exit_vars

\* main.py 116-120: the prior version passed is the latest common version;
\* the number save_successor returns is not kept.
SaveSuccessor ==
    /\ pc = "save_successor"
    /\ LET prior == latest_common_version(versions)
           target == save_successor(versions)
       IN  /\ versions' = versions \cup {target}
           /\ calls' = Append(calls, CallVersion("save_successor", prior, target))
    /\ pc' = "update_all_links_to"
    /\ UNCHANGED <<config, domains, lineage_arg, lineage, action, renewal_files,
                   identical_names_cert, subset_names_cert, renew_due,
                   response, answer, original_server, issuer, raised>>
    /\ UNCHANGED <<links, verb_vars>>
    /\ UNCHANGED exit_vars

\* Mutant of UpdateAllLinksTo: the links are left where they were.
UpdateAllLinksTo_not_moved ==
    /\ pc = "update_all_links_to"
    /\ calls' = Append(calls, CallVersion("update_all_links_to", links, 0))
    /\ pc' = "report"
    /\ UNCHANGED <<config, domains, lineage_arg, lineage, action, renewal_files,
                   identical_names_cert, subset_names_cert, renew_due,
                   response, answer, original_server, issuer, raised>>
    /\ UNCHANGED <<versions, links, verb_vars>>
    /\ UNCHANGED exit_vars

\* main.py 121: the version passed is the latest common version read anew.
UpdateAllLinksTo ==
    /\ pc = "update_all_links_to"
    /\ LET version == latest_common_version(versions)
       IN  /\ links' = version
           /\ calls' = Append(calls, CallVersion("update_all_links_to", version, 0))
    /\ pc' = "report"
    /\ UNCHANGED <<config, domains, lineage_arg, lineage, action, renewal_files,
                   identical_names_cert, subset_names_cert, renew_due,
                   response, answer, original_server, issuer, raised>>
    /\ UNCHANGED <<versions, verb_vars>>
    /\ UNCHANGED exit_vars

\* Mutant of ObtainAndEnrollCertificate: the result False is not looked at.
ObtainAndEnrollCertificate_unchecked ==
    /\ pc = "execute" /\ action = "newcert"
    /\ calls' = Append(calls, CallWith("obtain_and_enroll_certificate", domains))
    /\ \E enrolled \in BOOLEAN :
         /\ lineage' = IF enrolled THEN [file |-> NewFile, names |-> domains]
                       ELSE lineage
         /\ pc' = "report"
         /\ UNCHANGED raised
    /\ renewal_files' = <<>>
    /\ UNCHANGED <<config, domains, lineage_arg, action,
                   identical_names_cert, subset_names_cert, renew_due,
                   response, answer, original_server, issuer>>
    /\ UNCHANGED <<store_vars, verb_vars>>
    /\ UNCHANGED exit_vars

\* main.py 125-129
ObtainAndEnrollCertificate ==
    /\ pc = "execute" /\ action = "newcert"
    /\ calls' = Append(calls, CallWith("obtain_and_enroll_certificate", domains))
    /\ \E enrolled \in BOOLEAN :
         IF enrolled
         THEN /\ lineage' = [file |-> NewFile, names |-> domains]
              /\ pc' = "report"
              /\ UNCHANGED raised
         ELSE /\ raised' = NOT_OBTAINED
              /\ pc' = "raised"
              /\ UNCHANGED lineage
    /\ renewal_files' = <<>>
    /\ UNCHANGED <<config, domains, lineage_arg, action,
                   identical_names_cert, subset_names_cert, renew_due,
                   response, answer, original_server, issuer>>
    /\ UNCHANGED <<store_vars, verb_vars>>
    /\ UNCHANGED exit_vars

\* main.py 131-134: lineage.fullchain is the full chain's path, or nothing
\* for a lineage without one.
ReportNewCert ==
    /\ pc = "report"
    /\ IF ~config.dry_run /\ ~(config.verb = "renew")
       THEN \E fullchain \in {"", FULLCHAIN_PATH} :
              calls' = Append(calls,
                  CallPath("_report_new_cert", fullchain,
                           _report_new_cert(CERT_PATH, fullchain)))
       ELSE UNCHANGED calls
    /\ pc' = "done"
    /\ UNCHANGED <<config, domains, lineage_arg, lineage, action, renewal_files,
                   identical_names_cert, subset_names_cert, renew_due,
                   response, answer, original_server, issuer, raised>>
    /\ UNCHANGED <<store_vars, verb_vars>>
    /\ UNCHANGED exit_vars

Next ==
    \/ AuthFromDomains
    \/ TreatAsRenewal
    \/ HandleIdenticalCertRequest
    \/ HandleSubsetCertRequest
    \/ Reinstall
    \/ AvoidInvalidatingLineage
    \/ ObtainCertificate
    \/ SaveSuccessor
    \/ UpdateAllLinksTo
    \/ ObtainAndEnrollCertificate
    \/ ReportNewCert

Spec == Init /\ [][Next]_vars

----------------------------------------------------------------------------
(* Renewals of one lineage, run after run.                                 *)

\* The highest version a lineage starts with, and the number of runs.
MaxPrior == 2
MaxRenewals == 3

\* The runs of the renewer that have come to the guard.
Renewals ==
    Cardinality({i \in DOMAIN calls :
                   calls[i].op = "_avoid_invalidating_lineage"})

\* cli.renew calls obtain_cert with a lineage that has the versions 1..n and
\* the links on the latest.
InitRenewals ==
    /\ config \in {c \in Configs :
                     /\ c.verb = "renew"
                     /\ ~c.duplicate /\ ~c.expand /\ ~c.reinstall
                     /\ ~c.renew_by_default}
    /\ domains \in Requests
    /\ lineage_arg \in LineageArgs("renew")
    /\ lineage = lineage_arg
    /\ action = ""
    /\ renewal_files = <<>>
    /\ identical_names_cert = None
    /\ subset_names_cert = None
    /\ renew_due = FALSE
    /\ response = <<OK, 0>>
    /\ answer = FALSE
    /\ original_server = ""
    /\ issuer = ""
    /\ calls = <<>>
    /\ raised = ""
    /\ pc = "_auth_from_domains"
    /\ versions \in {1..n : n \in 1..MaxPrior}
    /\ links = latest_common_version(versions)
    /\ namespace = NoNamespace
    /\ accounts = <<>>
    /\ acc = ""
    /\ returned = ""
    /\ exc = NoException
    /\ exited = NotExited

\* The next run of the renewer on the same lineage, after a run that ended
\* or raised.
RenewAgain ==
    /\ pc \in {"done", "raised"}
    /\ Renewals < MaxRenewals
    /\ pc' = "_auth_from_domains"
    /\ action' = ""
    /\ raised' = ""
    /\ UNCHANGED <<config, domains, lineage_arg, lineage, renewal_files,
                   identical_names_cert, subset_names_cert, renew_due,
                   response, answer, original_server, issuer, calls>>
    /\ UNCHANGED <<store_vars, verb_vars>>
    /\ UNCHANGED exit_vars

\* Another process saves a successor of the same lineage.
OtherSaveSuccessor ==
    /\ Cardinality(versions) < MaxPrior + MaxRenewals
    /\ versions' = versions \cup {save_successor(versions)}
    /\ UNCHANGED <<config, domains, lineage_arg, lineage, action, renewal_files,
                   identical_names_cert, subset_names_cert, renew_due,
                   response, answer, original_server, issuer, calls, raised,
                   pc>>
    /\ UNCHANGED <<links, verb_vars>>
    /\ UNCHANGED exit_vars

\* The process stops in a renew before update_all_links_to is called: in
\* or after obtain_certificate, in or after save_successor.  A
\* save_successor that was cut short has written its version or nothing.
Stop ==
    /\ pc \in {"obtain_certificate", "save_successor", "update_all_links_to"}
    /\ pc' = "stopped"
    /\ IF pc = "save_successor"
       THEN \E written \in BOOLEAN :
              versions' = IF written
                          THEN versions \cup {save_successor(versions)}
                          ELSE versions
       ELSE UNCHANGED versions
    /\ UNCHANGED <<config, domains, lineage_arg, lineage, action, renewal_files,
                   identical_names_cert, subset_names_cert, renew_due,
                   response, answer, original_server, issuer, calls, raised>>
    /\ UNCHANGED <<links, verb_vars>>
    /\ UNCHANGED exit_vars

NextRenewals ==
    \/ AuthFromDomains
    \/ AvoidInvalidatingLineage
    \/ ObtainCertificate
    \/ SaveSuccessor
    \/ UpdateAllLinksTo
    \/ ReportNewCert
    \/ RenewAgain

\* The runs of this process alone.
SpecRenewals == InitRenewals /\ [][NextRenewals]_vars

\* The runs of this process next to another process on the same lineage.
SpecShared == InitRenewals /\ [][NextRenewals \/ OtherSaveSuccessor]_vars

\* The runs of this process, any of which may be stopped.
SpecStopped == InitRenewals /\ [][NextRenewals \/ Stop]_vars

----------------------------------------------------------------------------
(* The verb functions up to _auth_from_domains: the plugins, the domains   *)
(* and the account.                                                        *)

\* The most accounts in the storage.
MaxAccounts == 2

STORED_ACCOUNTS == {"account1", "account2"}
ABSENT_ACCOUNT == "account3"
NEW_ACCOUNT == "account4"
EMAIL == "admin@a.com"

\* The exceptions of this part, as the text the caller gets.
PLUGIN_SELECTION_ERROR == "PluginSelectionError: no authenticator"
NO_DOMAINS == "Error: Please specify --domains, or --installer"
ACCOUNT_NOT_FOUND == "AccountNotFound"
NO_ACCOUNT_CHOSEN == "AttributeError: 'NoneType' object has no attribute 'id'"
MISSING_FLAG == "MissingCommandlineFlag: --agree-tos"
REGISTER_FAILED == "Error: registration refused"
REGISTER_UNREACHABLE == "Error: server unreachable"
UNABLE_TO_REGISTER == "Error: Unable to register an account with ACME server"

\* What client.register raises: nothing, the missing flag, or another
\* errors.Error.
RegisterRaises == {"", MISSING_FLAG, REGISTER_FAILED, REGISTER_UNREACHABLE}

\* The listings of the account storage: no account twice.
AccountListings ==
    {l \in SeqsUpTo(STORED_ACCOUNTS, MaxAccounts) :
       \A i, j \in DOMAIN l : i # j => l[i] # l[j]}

Stored(stored) == {stored[i] : i \in DOMAIN stored}

\* A call that raised `error`, "" for a call that returned.
CallRaising(op, error) == [Call(op) EXCEPT !.message = error]

\* account.AccountFileStorage.load, from the specification: the account of
\* that id, "" for the storage error when it is absent.
load(stored, id) == IF id \in Stored(stored) THEN id ELSE ""

\* What _determine_account hands back: the account's id with the namespace
\* it leaves, or the exception, and the calls made.
Resolved(id, ns, made) ==
    [acc |-> id, raised |-> "", namespace |-> [ns EXCEPT !.account = id],
     calls |-> made]
Failed(error, ns, made) ==
    [acc |-> "", raised |-> error, namespace |-> ns, calls |-> made]

\* Mutant of _determine_account: a single stored account is used before
\* the account asked for is looked at.
_determine_account_stored_first(ns, stored, chosen, email, register_raises) ==
    IF Len(stored) = 1
    THEN Resolved(stored[1], ns, <<Call("find_all")>>)
    ELSE IF load(stored, ns.account) # ""
    THEN Resolved(load(stored, ns.account), ns, <<Call("load")>>)
    ELSE Failed(ACCOUNT_NOT_FOUND, ns, <<Call("load")>>)

\* Mutant of registration_error: every failure is replaced.
registration_error_all_replaced(register_raises) == UNABLE_TO_REGISTER

\* main.py 376-381: the exception _determine_account raises for the one
\* client.register raised.
registration_error(register_raises) ==
    IF register_raises = MISSING_FLAG THEN register_raises
    ELSE UNABLE_TO_REGISTER

\* main.py 331-384.  `chosen` is what display_ops.choose_account returns
\* ("" for None), `email` what display_ops.get_email returns,
\* `register_raises` what client.register raises ("" for nothing).
_determine_account(ns, stored, chosen, email, register_raises) ==
    IF ns.account # ""
    THEN IF load(stored, ns.account) # ""
         THEN Resolved(load(stored, ns.account), ns, <<Call("load")>>)
         ELSE Failed(ACCOUNT_NOT_FOUND, ns, <<Call("load")>>)
    ELSE IF Len(stored) > 1
    THEN IF chosen # ""
         THEN Resolved(chosen, ns, <<Call("find_all"), Call("choose_account")>>)
         ELSE Failed(NO_ACCOUNT_CHOSEN, ns,
                     <<Call("find_all"), Call("choose_account")>>)
    ELSE IF Len(stored) = 1
    THEN Resolved(stored[1], ns, <<Call("find_all")>>)
    ELSE LET ask == ns.email = "" /\ ~ns.register_unsafely_without_email
             ns1 == IF ask THEN [ns EXCEPT !.email = email] ELSE ns
             made == <<Call("find_all")>>
                       \o (IF ask THEN <<Call("get_email")>> ELSE <<>>)
                       \o <<CallRaising("register", register_raises)>>
         IN  IF register_raises = "" THEN Resolved(NEW_ACCOUNT, ns1, made)
             ELSE Failed(registration_error(register_raises), ns1, made)

\* The verbs that choose their plugins in this module.
EntryVerbs == {"run", "certonly", "install"}

\* A verb function is entered with the domains of the command line, if any,
\* the account of the command line, if any, and the accounts in the storage.
InitVerbs ==
    /\ config \in {[c EXCEPT !.verb = v] :
                     c \in {d \in Configs :
                              /\ ~d.duplicate /\ ~d.expand /\ ~d.reinstall
                              /\ ~d.renew_by_default /\ ~d.break_my_certs
                              /\ ~d.dry_run /\ d.server = PRODUCTION_URI},
                     v \in EntryVerbs}
    /\ domains \in {{}} \cup Requests
    /\ lineage_arg = None
    /\ lineage = None
    /\ action = ""
    /\ renewal_files = <<>>
    /\ identical_names_cert = None
    /\ subset_names_cert = None
    /\ renew_due = FALSE
    /\ response = <<OK, 0>>
    /\ answer = FALSE
    /\ original_server = ""
    /\ issuer = ""
    /\ calls = <<>>
    /\ raised = ""
    /\ pc = "choose_configurator_plugins"
    /\ versions = {1}
    /\ links = 1
    /\ namespace \in [account : {""} \cup STORED_ACCOUNTS \cup {ABSENT_ACCOUNT},
                      email : {"", EMAIL},
                      register_unsafely_without_email : BOOLEAN]
    /\ accounts \in AccountListings
    /\ acc = ""
    /\ returned = ""
    /\ exc = NoException
    /\ exited = NotExited

\* main.py 481-484: run returns the message of a PluginSelectionError.
Run ==
    /\ pc = "choose_configurator_plugins" /\ config.verb = "run"
    /\ \E error \in {"", PLUGIN_SELECTION_ERROR} :
         /\ calls' = Append(calls,
                            CallRaising("choose_configurator_plugins", error))
         /\ returned' = error
         /\ pc' = IF error = "" THEN "_find_domains" ELSE "done"
    /\ UNCHANGED <<config, domains, lineage_arg, lineage, action, renewal_files,
                   identical_names_cert, subset_names_cert, renew_due,
                   response, answer, original_server, issuer, raised>>
    /\ UNCHANGED <<store_vars, namespace, accounts, acc>>
    /\ UNCHANGED exit_vars

\* main.py 510-515: obtain_cert logs a PluginSelectionError and raises it
\* again.
ObtainCert ==
    /\ pc = "choose_configurator_plugins" /\ config.verb = "certonly"
    /\ \E error \in {"", PLUGIN_SELECTION_ERROR} :
         /\ calls' = Append(calls,
                            CallRaising("choose_configurator_plugins", error))
         /\ raised' = error
         /\ pc' = IF error = "" THEN "_init_le_client" ELSE "raised"
    /\ UNCHANGED <<config, domains, lineage_arg, lineage, action, renewal_files,
                   identical_names_cert, subset_names_cert, renew_due,
                   response, answer, original_server, issuer>>
    /\ UNCHANGED <<store_vars, verb_vars>>
    /\ UNCHANGED exit_vars

\* main.py 406-409: install returns the message of a PluginSelectionError.
Install ==
    /\ pc = "choose_configurator_plugins" /\ config.verb = "install"
    /\ \E error \in {"", PLUGIN_SELECTION_ERROR} :
         /\ calls' = Append(calls,
                            CallRaising("choose_configurator_plugins", error))
         /\ returned' = error
         /\ pc' = IF error = "" THEN "_find_domains" ELSE "done"
    /\ UNCHANGED <<config, domains, lineage_arg, lineage, action, renewal_files,
                   identical_names_cert, subset_names_cert, renew_due,
                   response, answer, original_server, issuer, raised>>
    /\ UNCHANGED <<store_vars, namespace, accounts, acc>>
    /\ UNCHANGED exit_vars

\* main.py 287-301, called at 411, 486 and 534: run and install go on to
\* _init_le_client, obtain_cert has been there and goes on to
\* _auth_from_domains.
FindDomains ==
    /\ pc = "_find_domains"
    /\ \E chosen \in {{}} \cup Requests :
         LET found == IF domains = {} THEN chosen ELSE domains IN
         /\ calls' = IF domains = {} THEN Append(calls, Call("choose_names"))
                     ELSE calls
         /\ domains' = found
         /\ raised' = IF found = {} THEN NO_DOMAINS ELSE ""
         /\ pc' = IF found = {} THEN "raised"
                  ELSE IF config.verb = "certonly" THEN "_auth_from_domains"
                  ELSE "_init_le_client"
    /\ UNCHANGED <<config, lineage_arg, lineage, action, renewal_files,
                   identical_names_cert, subset_names_cert, renew_due,
                   response, answer, original_server, issuer>>
    /\ UNCHANGED <<store_vars, verb_vars>>
    /\ UNCHANGED exit_vars

\* main.py 387-397, called at 412, 489 and 518: install has no
\* authenticator and no account; run goes on to _auth_from_domains,
\* obtain_cert to _find_domains, install to deploy_certificate.
InitLeClient ==
    /\ pc = "_init_le_client"
    /\ IF config.verb = "install"
       THEN /\ pc' = "deploy_certificate"
            /\ UNCHANGED <<namespace, acc, calls, raised>>
       ELSE \E chosen \in Stored(accounts) \cup {""},
               register_raises \in RegisterRaises :
              LET out == _determine_account(namespace, accounts, chosen, EMAIL,
                                            register_raises)
              IN  /\ acc' = out.acc
                  /\ namespace' = out.namespace
                  /\ calls' = calls \o out.calls
                  /\ raised' = out.raised
                  /\ pc' = IF out.raised # "" THEN "raised"
                           ELSE IF config.verb = "run" THEN "_auth_from_domains"
                           ELSE "_find_domains"
    /\ UNCHANGED <<config, domains, lineage_arg, lineage, action, renewal_files,
                   identical_names_cert, subset_names_cert, renew_due,
                   response, answer, original_server, issuer>>
    /\ UNCHANGED <<store_vars, accounts, returned>>
    /\ UNCHANGED exit_vars

NextVerbs ==
    \/ Run
    \/ ObtainCert
    \/ Install
    \/ FindDomains
    \/ InitLeClient

\* One call of run, obtain_cert or install, up to _auth_from_domains or
\* deploy_certificate.
SpecVerbs == InitVerbs /\ [][NextVerbs]_vars

----------------------------------------------------------------------------
(* The exception hook.                                                     *)

\* The classes of the exceptions: errors.Error, an exception of the acme
\* module, and one that is not an Exception.
ERRORS_ERROR == "letsencrypt.errors.Error"
ACME_ERROR == "acme.messages.Error"
KEYBOARD_INTERRUPT == "KeyboardInterrupt"
ExcTypes == {ERRORS_ERROR, ACME_ERROR, KEYBOARD_INTERRUPT}

\* issubclass(exc_type, Exception) and issubclass(exc_type, errors.Error)
IsException(type) == type \in {ERRORS_ERROR, ACME_ERROR}
IsError(type) == type = ERRORS_ERROR

\* The texts of the exceptions: a code, the separator and a description;
\* a code alone; a separator without a code; neither.
ExcValues ==
    {"urn:acme:error:malformed :: The request message was malformed",
     "urn:acme:error:malformed",
     "Connection refused :: retry later",
     "Connection refused"}

\* cli.flag_default("verbose_count"), and the counts around it.
DEFAULT_VERBOSE_COUNT == 0 - 3
VerboseCounts ==
    {DEFAULT_VERBOSE_COUNT - 1, DEFAULT_VERBOSE_COUNT, DEFAULT_VERBOSE_COUNT + 1}

\* traceback.format_exception_only and traceback.format_exception
format_exception_only(type, value) == type \o ": " \o value \o "\n"
format_exception(type, value) ==
    "Traceback (most recent call last):\n" \o format_exception_only(type, value)

\* The first place of sep in s, 0 if there is none.
find(sep, s) ==
    LET places == {i \in 1..(Len(s) - Len(sep) + 1) :
                     SubSeq(s, i, i + Len(sep) - 1) = sep}
    IN  IF places = {} THEN 0
        ELSE CHOOSE i \in places : \A j \in places : i <= j

\* The third part of str.partition(sep).
partition(s, sep) ==
    IF find(sep, s) = 0 THEN ""
    ELSE SubSeq(s, find(sep, s) + Len(sep), Len(s))

\* sys.exit with a text: the text goes to the user and the status is 1.
\* An exception that leaves the hook ends the process with status 1 and
\* both tracebacks.
sys_exit(message) == [status |-> 1, message |-> message, raised |-> ""]
hook_raised(error, type, value) ==
    [status |-> 1,
     message |-> "Error in sys.excepthook:\n" \o error
                   \o "Original exception was:\n" \o format_exception(type, value),
     raised |-> error]

NONE_VERBOSE_COUNT ==
    "AttributeError: 'NoneType' object has no attribute 'verbose_count'\n"

\* main.py 601-651.  e is the exception with the config of the hook (config
\* is FALSE for None) and whether letsencrypt.log can be written.
_handle_exception(e) ==
    IF IsException(e.type) /\ (~e.config \/ ~e.debug)
    THEN IF ~e.config /\ ~e.writable
         THEN sys_exit(format_exception(e.type, e.value))
         ELSE IF IsError(e.type) THEN sys_exit(e.value)
         ELSE LET err == format_exception_only(e.type, e.value)
                  coded == contains("urn:acme", err) /\ contains(":: ", err)
                  pruned == IF coded /\ e.verbose_count <= DEFAULT_VERBOSE_COUNT
                            THEN partition(err, ":: ") ELSE err
                  msg == "An unexpected error occurred:\n" \o pruned
                           \o "Please see the "
              IN  IF coded /\ ~e.config
                  THEN hook_raised(NONE_VERBOSE_COUNT, e.type, e.value)
                  ELSE IF ~e.config
                  THEN sys_exit(msg \o "logfile 'letsencrypt.log' for more details.")
                  ELSE sys_exit(msg \o "logfiles in /var/log/letsencrypt for more details.")
    ELSE sys_exit(format_exception(e.type, e.value))

\* An exception has left main: before the config is there (main.py 656) or
\* after (main.py 680).
InitException ==
    /\ config = CHOOSE c \in Configs : TRUE
    /\ domains = {}
    /\ lineage_arg = None
    /\ lineage = None
    /\ action = ""
    /\ renewal_files = <<>>
    /\ identical_names_cert = None
    /\ subset_names_cert = None
    /\ renew_due = FALSE
    /\ response = <<OK, 0>>
    /\ answer = FALSE
    /\ original_server = ""
    /\ issuer = ""
    /\ calls = <<>>
    /\ raised = ""
    /\ pc = "_handle_exception"
    /\ versions = {1}
    /\ links = 1
    /\ namespace = NoNamespace
    /\ accounts = <<>>
    /\ acc = ""
    /\ returned = ""
    /\ exc \in {e \in [type : ExcTypes, value : ExcValues, config : BOOLEAN,
                       debug : BOOLEAN, verbose_count : VerboseCounts,
                       writable : BOOLEAN] :
                  /\ ~e.config => ~e.debug /\ e.verbose_count = DEFAULT_VERBOSE_COUNT
                  /\ e.config => e.writable}
    /\ exited = NotExited

\* main.py 601-651
HandleException ==
    /\ pc = "_handle_exception"
    /\ exited' = _handle_exception(exc)
    /\ raised' = exited'.raised
    /\ pc' = "exited"
    /\ UNCHANGED <<config, domains, lineage_arg, lineage, action, renewal_files,
                   identical_names_cert, subset_names_cert, renew_due,
                   response, answer, original_server, issuer, calls>>
    /\ UNCHANGED <<store_vars, verb_vars, exc>>

SpecException == InitException /\ [][HandleException]_vars

----------------------------------------------------------------------------
(* Properties.                                                             *)

Called(op) == \E i \in DOMAIN calls : calls[i].op = op

\* The classification the guard applies: the staging constant, or any URI
\* with the lower-case substring "staging".
ClassifiedStaging(srv) == srv = STAGING_URI \/ contains("staging", srv)

\* The classification with the match on "staging" made in any letter case.
AnyCaseStaging(srv) == srv = STAGING_URI \/ contains("staging", lower(srv))

\* The certificates of the fake CA.
TestCertificate(iss) == iss \in {FAKE_ISSUER, FAKE_UPPER_ISSUER}

GuardRan == Called("_avoid_invalidating_lineage")
GuardBlocked == raised = BREAK_MY_CERTS

C3_AnyCaseIsStaging ==
    GuardRan /\ AnyCaseStaging(config.server)
        /\ original_server = PRODUCTION_URI /\ ~config.break_my_certs
    => GuardBlocked

\* C3 amended: the guard treats a target as staging if and only if it is
\* the staging constant or contains "staging" in lower case; over a
\* production lineage, without the flag, it fails for exactly those.
C3_LowerCaseIsStaging ==
    GuardRan /\ original_server = PRODUCTION_URI /\ ~config.break_my_certs
    => (GuardBlocked <=>
            \/ config.server = STAGING_URI
            \/ \E i \in 1..(Len(config.server) - 6) :
                 SubSeq(config.server, i, i + 6) = "staging")

\* C3 witness: a target spelt "STAGING" passes the guard onto a production
\* lineage that holds a real certificate.
C3_Witness ==
    /\ GuardRan /\ ~GuardBlocked
    /\ config.server = UPPER_STAGING_URI
    /\ original_server = PRODUCTION_URI
    /\ issuer = REAL_ISSUER
    /\ ~config.break_my_certs

\* The renewal files that load, and how their names lie to the request.
Loadable == {i \in DOMAIN renewal_files : renewal_files[i].ok}
Identicals == {i \in Loadable : renewal_files[i].names = domains}
Subsets == {i \in Loadable : /\ renewal_files[i].names \subseteq domains
                             /\ renewal_files[i].names # domains}

\* C4: when a loadable lineage has exactly the requested names, the
\* resolver goes to the identical-match handler with such a lineage, never
\* to the subset handler, wherever proper subsets stand in the listing.
C4_IdenticalWins ==
    Identicals # {} =>
      /\ pc = "_handle_identical_cert_request"
      /\ identical_names_cert.file \in Identicals
      /\ identical_names_cert.names = domains

\* C4 witness: an identical lineage is listed before a proper subset and
\* the resolver is in the identical-match handler.
C4_Witness ==
    /\ pc = "_handle_identical_cert_request"
    /\ \E i \in Identicals, j \in Subsets : i < j

\* C5: with no identical lineage, the subset lineage the matcher returns
\* is a loadable lineage within the request, and no loadable lineage
\* within the request has more names.
C5_LargestSubset ==
    Identicals = {} /\ Subsets # {} =>
      /\ subset_names_cert.file \in Subsets
      /\ subset_names_cert.names = renewal_files[subset_names_cert.file].names
      /\ \A i \in Subsets :
           Cardinality(subset_names_cert.names)
               >= Cardinality(renewal_files[i].names)

\* C5 witness: the larger of two subset lineages is listed second and is
\* the one returned.
C5_Witness ==
    /\ pc = "_handle_subset_cert_request"
    /\ Subsets = {1, 2}
    /\ Cardinality(renewal_files[2].names) > Cardinality(renewal_files[1].names)
    /\ subset_names_cert.file = 2

\* C6: a subset candidate has its names within the request; when the
\* request is a strict subset of a lineage's names and no lineage lies
\* within the request, the matcher returns neither match and the action
\* is newcert.
C6_SubsetDirection ==
    /\ subset_names_cert # None =>
         /\ subset_names_cert.names \subseteq domains
         /\ subset_names_cert.names # domains
    /\ /\ \E i \in Loadable : /\ domains \subseteq renewal_files[i].names
                              /\ domains # renewal_files[i].names
       /\ Identicals = {} /\ Subsets = {}
       => /\ identical_names_cert = None
          /\ subset_names_cert = None
          /\ action = "newcert" /\ lineage = None
          /\ pc = "execute"

\* C6 witness: the request is a strict subset of the only lineage and the
\* action is newcert.
C6_Witness ==
    /\ Len(renewal_files) = 1
    /\ 1 \in Loadable
    /\ domains \subseteq renewal_files[1].names
    /\ domains # renewal_files[1].names
    /\ action = "newcert"

\* C7: with an explicit lineage or with --duplicate no renewal file is
\* listed or loaded and no handler of a match is entered; an explicit
\* lineage gives renew on that lineage, also with --duplicate, and
\* --duplicate alone gives newcert with no lineage.
C7_MatcherSkipped ==
    lineage_arg # None \/ config.duplicate =>
      /\ renewal_files = <<>>
      /\ identical_names_cert = None /\ subset_names_cert = None
      /\ pc \notin {"_handle_identical_cert_request", "_handle_subset_cert_request"}
      /\ ~Called("menu") /\ ~Called("yesno")
      /\ lineage_arg # None =>
           /\ pc # "_treat_as_renewal"
           /\ lineage = lineage_arg
           /\ pc # "_auth_from_domains" => action = "renew"
      /\ lineage_arg = None /\ pc \notin {"_auth_from_domains", "_treat_as_renewal"} =>
           /\ action = "newcert"
           /\ pc = "execute" => lineage = None
           /\ lineage \in {None, [file |-> NewFile, names |-> domains]}

\* C7 witness: a run with an explicit lineage and --duplicate has renewed
\* that lineage.
C7_Witness ==
    /\ lineage_arg # None /\ config.duplicate
    /\ action = "renew" /\ lineage = lineage_arg
    /\ Called("update_all_links_to")
    /\ pc = "done"

\* C8: in the identical-match handler, renewal due by policy gives renew
\* with no prompt, also with --reinstall; otherwise --reinstall gives
\* reinstall with no prompt; otherwise the menu is shown once and gives
\* Cancelled on cancel, reinstall on the first choice, renew on the second.
C8_IdenticalOrder ==
    [][pc = "_handle_identical_cert_request" =>
         /\ renew_due' =>
              /\ action' = "renew" /\ lineage' = identical_names_cert
              /\ calls' = calls /\ raised' = ""
         /\ ~renew_due' /\ config.reinstall =>
              /\ action' = "reinstall" /\ lineage' = identical_names_cert
              /\ calls' = calls /\ raised' = ""
         /\ ~renew_due' /\ ~config.reinstall =>
              /\ calls' = Append(calls, Call("menu"))
              /\ IF response'[1] = CANCEL
                 THEN raised' = CANCELLED /\ pc' = "raised" /\ action' = action
                 ELSE /\ raised' = "" /\ lineage' = identical_names_cert
                      /\ response'[2] = 0 => action' = "reinstall"
                      /\ response'[2] = 1 => action' = "renew"
                      /\ response'[2] \in {0, 1}]_vars

\* C8 witness: renewal was not due, --reinstall was not set, the user was
\* asked and chose the second entry, and the action is renew.
C8_Witness ==
    /\ Called("menu") /\ response = <<OK, 1>>
    /\ ~renew_due /\ ~config.reinstall
    /\ action = "renew"

\* C9: in the subset-match handler, --expand or --renew-by-default gives
\* renew on the subset lineage with no prompt; and obtain_certificate is
\* called with the requested names.
C9_SubsetExpand ==
    [][/\ pc = "_handle_subset_cert_request"
            /\ (config.expand \/ config.renew_by_default) =>
              /\ action' = "renew" /\ lineage' = subset_names_cert
              /\ calls' = calls /\ raised' = "" /\ pc' = "execute"
       /\ pc = "obtain_certificate" =>
              calls' = Append(calls, CallWith("obtain_certificate", domains))]_vars

\* C9 witness: a subset lineage was matched under --renew-by-default alone,
\* nobody was asked, and the certificate was requested for all the
\* requested names, more than the lineage has.
C9_Witness ==
    /\ lineage_arg = None /\ ~config.expand /\ config.renew_by_default
    /\ action = "renew"
    /\ lineage.names \subseteq domains /\ lineage.names # domains
    /\ ~Called("yesno")
    /\ \E i \in DOMAIN calls : calls[i] = CallWith("obtain_certificate", domains)

\* C10: the expand prompt is shown only with neither --expand nor
\* --renew-by-default; after a "no" the calls of the run are the prompt
\* and the reporter's message, in this order, the run has ended with
\* Cancelled, and neither the guard nor the protocol client nor
\* save_successor nor update_all_links_to was called.
C10_SubsetCancel ==
    /\ Called("yesno") => ~config.expand /\ ~config.renew_by_default
    /\ (Called("yesno") /\ ~answer) \/ Called("add_message") =>
         /\ calls = <<Call("yesno"), Call("add_message")>>
         /\ ~answer
         /\ raised = CANCELLED /\ pc = "raised"
         /\ \A op \in {"_avoid_invalidating_lineage", "obtain_certificate",
                       "obtain_and_enroll_certificate", "save_successor",
                       "update_all_links_to"} : ~Called(op)

\* C10 witness: the user answered "no" to the expand prompt.
C10_Witness ==
    /\ Called("yesno") /\ ~answer
    /\ Called("add_message")
    /\ raised = CANCELLED

CalledIn(made, op) == \E i \in DOMAIN made : made[i].op = op

\* C11: a reinstall returns the matched lineage and "reinstall" at once: its
\* step ends the run without an exception, with the lineage that has the
\* requested names, makes no call, and no call of the guard, the protocol
\* client, save_successor, update_all_links_to or _report_new_cert was made
\* before; the lineage's versions and links are as they were.
C11_ReinstallNoSideEffects ==
    [][pc = "execute" /\ action = "reinstall" =>
         /\ pc' = "done" /\ action' = "reinstall" /\ raised' = ""
         /\ lineage' = lineage
         /\ lineage.file \in 1..MaxLineages /\ lineage.names = domains
         /\ calls' = calls
         /\ \A op \in {"_avoid_invalidating_lineage", "obtain_certificate",
                       "obtain_and_enroll_certificate", "save_successor",
                       "update_all_links_to", "_report_new_cert"} : ~Called(op)
         /\ versions' = versions /\ links' = links]_vars

\* C11 witness: a run that ended with a reinstall chosen in the menu.
C11_Witness ==
    /\ pc = "done" /\ action = "reinstall"
    /\ calls = <<Call("menu")>>
    /\ lineage.names = domains

\* C12: every renew runs the guard, on the lineage's recorded server and
\* the request's server, before obtain_certificate: a call of
\* obtain_certificate, save_successor or update_all_links_to has a call of
\* the guard before it, a renew past the guard has run it, the guard's
\* error is its verdict on the two servers, and after it none of the three
\* was called.
C12_GuardBeforeObtain ==
    /\ \A i \in DOMAIN calls :
         calls[i].op \in {"obtain_certificate", "save_successor",
                          "update_all_links_to"} =>
           \E j \in 1..(i - 1) : calls[j].op = "_avoid_invalidating_lineage"
    /\ action = "renew" /\ pc \notin {"execute", "_auth_from_domains"} => GuardRan
    /\ GuardRan =>
         (GuardBlocked <=>
            _avoid_invalidating_lineage(config, issuer, original_server) # "")
    /\ GuardBlocked =>
         /\ pc = "raised"
         /\ \A op \in {"obtain_certificate", "save_successor",
                       "update_all_links_to"} : ~Called(op)

\* C12 witness: a renew the guard stopped.
C12_Witness ==
    /\ action = "renew" /\ GuardRan /\ GuardBlocked
    /\ pc = "raised"

\* C13: a step of a dry run leaves the versions and the links as they are,
\* and no call of save_successor or update_all_links_to is made; a dry run
\* that ends has the action it resolved, and has called the protocol client
\* for a renew and for a new certificate.
C13_DryRun ==
    [][config.dry_run =>
         /\ versions' = versions /\ links' = links
         /\ ~CalledIn(calls', "save_successor")
         /\ ~CalledIn(calls', "update_all_links_to")
         /\ pc' = "done" =>
              /\ action' = action
              /\ action' \in {"reinstall", "renew", "newcert"}
              /\ action' = "renew" => CalledIn(calls', "obtain_certificate")
              /\ action' = "newcert" =>
                   CalledIn(calls', "obtain_and_enroll_certificate")]_vars

\* C13 witness: a dry run of a renew that ended.
C13_Witness ==
    /\ config.dry_run /\ pc = "done" /\ action = "renew"
    /\ Called("obtain_certificate")
    /\ ~Called("save_successor")

\* C14 as stated: save_successor is called with the latest common version,
\* so the version it returns is the next one, and the call that follows it
\* is update_all_links_to with the version save_successor returned.
C14_LinksToSavedVersion ==
    \A i \in DOMAIN calls :
      /\ calls[i].op = "save_successor" => calls[i].ret = calls[i].ver + 1
      /\ calls[i].op = "update_all_links_to" =>
           /\ i > 1
           /\ calls[i - 1].op = "save_successor"
           /\ calls[i].ver = calls[i - 1].ret

IsSave(c) == c.op = "save_successor"
IsMove(c) == c.op = "update_all_links_to"

\* C15: renewals that are not dry runs, run after run from version v: the
\* k-th save_successor is given v + k - 1 and writes v + k, the k-th
\* update_all_links_to moves the links to v + k; the versions on disk are
\* 1..v + n after n of them with none left out, and the links are on the
\* latest of them except between the two calls.
C15_OneVersionPerRenewal ==
    LET saves == SelectSeq(calls, IsSave)
        moves == SelectSeq(calls, IsMove)
        latest == latest_common_version(versions)
    IN  /\ versions = 1..latest
        /\ links = IF pc = "update_all_links_to" THEN latest - 1 ELSE latest
        /\ Len(moves) = IF pc = "update_all_links_to"
                        THEN Len(saves) - 1 ELSE Len(saves)
        /\ saves # <<>> => latest = saves[1].ver + Len(saves)
        /\ \A k \in DOMAIN saves :
             /\ saves[k].ver = saves[1].ver + k - 1
             /\ saves[k].ret = saves[1].ver + k
        /\ \A k \in DOMAIN moves : moves[k].ver = saves[1].ver + k

\* C15 witness: the second renewal of a lineage has ended, or a later one.
C15_Witness ==
    /\ pc = "done" /\ ~config.dry_run
    /\ Len(SelectSeq(calls, IsMove)) >= 2
    /\ links = latest_common_version(versions)
    /\ links >= 3

\* The calls of _report_new_cert the run has made.
Reports == {i \in DOMAIN calls : calls[i].op = "_report_new_cert"}

\* C16 as stated: every run that ended with a renew or a new certificate
\* and is not a dry run has reported the certificate once, under any verb.
C16_ReportAnyVerb ==
    pc = "done" /\ action \in {"renew", "newcert"} /\ ~config.dry_run =>
      Cardinality(Reports) = 1

\* C16: a run reports the new certificate at most once, and only when it
\* ends; a run that ended has reported it exactly when it renewed or made a
\* new certificate, is not a dry run and its verb is not renew; the message
\* names the full chain's path when there is one and the certificate's path
\* otherwise.
C16_ReportUnlessRenewVerb ==
    /\ Cardinality(Reports) <= 1
    /\ pc # "done" => Reports = {}
    /\ pc = "done" =>
         (Cardinality(Reports) = 1 <=>
            /\ action \in {"renew", "newcert"}
            /\ ~config.dry_run
            /\ config.verb # "renew")
    /\ \A i \in Reports :
         calls[i].message =
           IF calls[i].path # "" THEN calls[i].path ELSE CERT_PATH

\* C16 witness: the renew verb saved a successor and reported nothing.
C16_Witness ==
    /\ pc = "done" /\ action = "renew" /\ config.verb = "renew"
    /\ ~config.dry_run
    /\ Called("update_all_links_to")
    /\ Reports = {}

\* C17: a new certificate is made without an explicit lineage, by
\* obtain_and_enroll_certificate on the requested names; the guard,
\* obtain_certificate, save_successor and update_all_links_to are not
\* called and the versions and links of the lineages on disk stay; the
\* lineage handed on is the new one; a result of False ends the run with
\* "Certificate could not be obtained" and without a report.
C17_NewCert ==
    [][action' = "newcert" =>
         /\ lineage_arg = None
         /\ versions' = versions /\ links' = links
         /\ \A op \in {"_avoid_invalidating_lineage", "obtain_certificate",
                       "save_successor", "update_all_links_to"} :
              ~CalledIn(calls', op)
         /\ pc = "execute" =>
              /\ calls' = Append(calls,
                    CallWith("obtain_and_enroll_certificate", domains))
              /\ pc' \in {"report", "raised"}
         /\ pc' \in {"report", "done"} =>
              /\ lineage' = [file |-> NewFile, names |-> domains]
              /\ raised' = ""
         /\ pc' = "raised" =>
              /\ raised' = NOT_OBTAINED
              /\ lineage' = None
              /\ ~CalledIn(calls', "_report_new_cert")]_vars

\* C17 witness: a new certificate was made and reported next to lineages
\* that did not match.
C17_Witness ==
    /\ pc = "done" /\ action = "newcert" /\ ~config.duplicate
    /\ lineage = [file |-> NewFile, names |-> domains]
    /\ Called("obtain_and_enroll_certificate")
    /\ Called("_report_new_cert")

\* C18: _determine_account with an account asked for loads that account and
\* nothing else, and raises when it is absent; without one, a single stored
\* account is used without a prompt, several go to choose_account, and
\* client.register is called exactly when none is stored; whenever no
\* exception leaves, the account's id is in config.namespace.account.
C18_AccountResolution ==
    [][pc = "_init_le_client" /\ config.verb # "install" =>
         LET made == SubSeq(calls', Len(calls) + 1, Len(calls'))
             ok == raised' = ""
         IN  /\ namespace.account # "" =>
                  /\ made = <<Call("load")>>
                  /\ IF namespace.account \in Stored(accounts)
                     THEN ok /\ acc' = namespace.account
                     ELSE raised' = ACCOUNT_NOT_FOUND /\ acc' = ""
             /\ namespace.account = "" /\ Len(accounts) = 1 =>
                  /\ made = <<Call("find_all")>>
                  /\ ok /\ acc' = accounts[1]
             /\ namespace.account = "" /\ Len(accounts) > 1 =>
                  /\ made = <<Call("find_all"), Call("choose_account")>>
                  /\ ok => acc' \in Stored(accounts)
             /\ CalledIn(made, "register") <=>
                  namespace.account = "" /\ accounts = <<>>
             /\ ok => acc' # "" /\ namespace'.account = acc'
             /\ ~ok => pc' = "raised" /\ acc' = ""]_vars

\* C18 witness: the user chose one of two stored accounts.
C18_Witness ==
    /\ pc \in {"_auth_from_domains", "_find_domains"}
    /\ Called("choose_account")
    /\ Len(accounts) = 2
    /\ acc \in Stored(accounts)
    /\ namespace.account = acc

\* C19: when client.register raised, the exception that leaves is the
\* missing-flag exception itself if it raised that, and "Unable to register
\* an account with ACME server" for every other one; no account id is in
\* config.namespace.account then.
C19_RegistrationFailure ==
    \A i \in DOMAIN calls :
      calls[i].op = "register" /\ calls[i].message # "" =>
        /\ raised = IF calls[i].message = MISSING_FLAG
                    THEN calls[i].message ELSE UNABLE_TO_REGISTER
        /\ pc = "raised"
        /\ namespace.account = "" /\ acc = ""

\* C19 witness: client.register raised the missing-flag exception.
C19_Witness ==
    /\ raised = MISSING_FLAG
    /\ calls[Len(calls)] = CallRaising("register", MISSING_FLAG)
    /\ namespace.account = ""

\* C20 as stated: after a PluginSelectionError, under run, certonly and
\* install, the verb function has returned its message and raised nothing,
\* and has made no other call: no domains, no account, no client.
C20_SelectionFailureReturned ==
    \A i \in DOMAIN calls :
      calls[i].op = "choose_configurator_plugins" /\ calls[i].message # "" =>
        /\ returned = calls[i].message
        /\ raised = ""
        /\ pc = "done"
        /\ Len(calls) = 1
        /\ acc = "" /\ lineage = None

\* The calls that ask the protocol client for a certificate.
ClientCalls ==
    {i \in DOMAIN calls :
       calls[i].op \in {"obtain_certificate", "obtain_and_enroll_certificate"}}

\* C21: a run asks the protocol client for a certificate at most once; a run
\* that ended with renew or newcert has asked once, and only a renew past
\* the guard or a newcert asks; a reinstall, a run the user cancelled and a
\* run the guard stopped have not asked.
C21_ClientOnce ==
    /\ Cardinality(ClientCalls) <= 1
    /\ pc = "done" /\ action \in {"renew", "newcert"} =>
         Cardinality(ClientCalls) = 1
    /\ ClientCalls # {} =>
         \/ action = "renew" /\ GuardRan /\ ~GuardBlocked
         \/ action = "newcert"
    /\ action = "reinstall" \/ raised = CANCELLED \/ GuardBlocked =>
         ClientCalls = {}

\* C21 witness: an identical match not due for renewal, no --reinstall, the
\* user chose to renew, and the run ended with one call of the client.
C21_Witness ==
    /\ pc = "done" /\ action = "renew"
    /\ lineage_arg = None /\ lineage.names = domains
    /\ ~renew_due /\ ~config.reinstall
    /\ Called("menu") /\ response = <<OK, 1>>
    /\ Cardinality(ClientCalls) = 1

\* The place in the listing of the k-th file that loads.
LoadablePlace(k) ==
    CHOOSE i \in Loadable : Cardinality({j \in Loadable : j <= i}) = k

\* A lineage found in the listing without the broken files, at its place
\* in the whole listing.
InListing(cert) ==
    IF cert = None THEN None
    ELSE [file |-> LoadablePlace(cert.file), names |-> cert.names]

IsLoadable(file) == file.ok

\* C22: the matcher raises nothing for a file that does not load, returns
\* no such file, and returns what it returns for the listing without the
\* broken files, wherever they stand.
C22_BrokenSkipped ==
    renewal_files # <<>> =>
      LET found == _find_duplicative_certs(SelectSeq(renewal_files, IsLoadable),
                                           domains)
      IN  /\ raised = ""
          /\ identical_names_cert.file \in Loadable \cup {0}
          /\ subset_names_cert.file \in Loadable \cup {0}
          /\ identical_names_cert = InListing(found[1])
          /\ subset_names_cert = InListing(found[2])

\* C22 witness: a broken file is listed before the identical lineage.
C22_Witness ==
    /\ Len(renewal_files) = 2
    /\ ~renewal_files[1].ok
    /\ identical_names_cert = [file |-> 2, names |-> domains]
    /\ pc = "_handle_identical_cert_request"

\* The subset lineages with the most names.
LargestSubsets ==
    {i \in Subsets :
       \A j \in Subsets : Cardinality(renewal_files[i].names)
                            >= Cardinality(renewal_files[j].names)}

\* C24: the subset lineage the matcher returns is the first in the listing
\* of those with the most names.
C24_FirstOfTies ==
    Subsets # {} =>
      /\ subset_names_cert.file \in LargestSubsets
      /\ \A i \in LargestSubsets : subset_names_cert.file <= i

\* C24 witness: two subset lineages of one name each, the first returned.
C24_Witness ==
    /\ Subsets = {1, 2}
    /\ renewal_files[1].names # renewal_files[2].names
    /\ Cardinality(renewal_files[1].names) = Cardinality(renewal_files[2].names)
    /\ subset_names_cert = [file |-> 1, names |-> renewal_files[1].names]

\* C23: the links move only in the call of update_all_links_to, and that
\* call comes right after the save_successor of the same run has returned;
\* a process that stops before it leaves the links where they were, on a
\* version that is on disk with all versions that were there.
C23_LinksAfterSave ==
    [][/\ links' # links \/ (calls' # calls /\ IsMove(calls'[Len(calls')])) =>
            /\ pc = "update_all_links_to" /\ pc' = "report"
            /\ calls # <<>> /\ IsSave(calls[Len(calls)])
            /\ calls' = Append(calls, calls'[Len(calls')])
            /\ IsMove(calls'[Len(calls')])
       /\ pc' = "stopped" =>
            /\ links' = links
            /\ versions \subseteq versions'
       /\ links' \in versions']_vars

\* C23 witness: the process stopped after save_successor had written the
\* successor, and the links are on the version before it.
C23_Witness ==
    /\ pc = "stopped"
    /\ calls # <<>> /\ IsSave(calls[Len(calls)])
    /\ links = calls[Len(calls)].ver
    /\ calls[Len(calls)].ret \in versions
    /\ links \in versions

\* Where a run is inside the action resolver.
ResolverPcs ==
    {"_auth_from_domains", "_treat_as_renewal",
     "_handle_identical_cert_request", "_handle_subset_cert_request"}

\* C25: the action resolver always has a next step until it ends, and it
\* ends with one of newcert, renew and reinstall and no exception, or with
\* Cancelled and no action; it raises neither the assertion "This is
\* impossible" nor an unbound keep_opt, under every verb.
C25_ResolverOutcomes ==
    /\ pc \in ResolverPcs =>
         /\ action = "" /\ raised = ""
         /\ ENABLED (\/ AuthFromDomains \/ TreatAsRenewal
                     \/ HandleIdenticalCertRequest \/ HandleSubsetCertRequest)
    /\ pc = "execute" =>
         action \in {"newcert", "renew", "reinstall"} /\ raised = ""
    /\ pc \notin ResolverPcs /\ action = "" =>
         pc = "raised" /\ raised = CANCELLED
    /\ action # "" =>
         action \in {"newcert", "renew", "reinstall"} /\ raised # CANCELLED
    /\ raised \notin {"UnboundLocalError: keep_opt",
                      "AssertionError: This is impossible"}

\* C25 witness: under certonly the menu was shown and the user cancelled.
C25_Witness ==
    /\ config.verb = "certonly"
    /\ calls = <<Call("menu")>> /\ response[1] = CANCEL
    /\ pc = "raised" /\ raised = CANCELLED /\ action = ""

\* An exception that is not an errors.Error, with a code, the separator and
\* a description after it, handled without --debug and with a place for the
\* traceback.
CodedProtocolError ==
    /\ exc.type = ACME_ERROR
    /\ contains("urn:acme", exc.value)
    /\ find(":: ", exc.value) > find("urn:acme", exc.value)
    /\ ~exc.debug
    /\ exc.config \/ exc.writable

\* C26 as stated: the process ends with a status that is not 0, and for
\* such an error the message has no code, whatever the verbosity and with
\* or without a config.
C26_CodeStripped ==
    pc = "exited" =>
      /\ exited.status # 0
      /\ CodedProtocolError =>
           /\ exited.raised = ""
           /\ ~contains("urn:acme", exited.message)

====
